---- MODULE Spec2Model ----
(***************************************************************************)
(* A model of minilisp.py: the reader (lexer, Reader), the printer         *)
(* (repr_lisp), the evaluator (eval_lisp, procedure, match_args) and the   *)
(* two drivers (LispRepl.runcode, load).                                   *)
(*                                                                         *)
(* Text is a sequence of one-character strings.  A Python str value is the *)
(* sequence of its characters, so that indexing and unpacking a str behave *)
(* as they do in Python.                                                   *)
(***************************************************************************)
EXTENDS Integers, Sequences, FiniteSets, TLC

VARIABLES code, rd, heap, last

world == <<code, rd, heap, last>>

(***************************************************************************)
(* Bounds of the model.                                                    *)
(***************************************************************************)
\* the reader's inputs are concatenations of at most MaxPieces pieces
MaxPieces == 5
\* the host's limit on nested native activations (sys.getrecursionlimit)
RecursionLimit == 14

(***************************************************************************)
(* LispObject = str | int | Pair | None, plus the two kinds of callables.  *)
(***************************************************************************)
None == [t |-> "None"]
IntObj(n) == [t |-> "int", n |-> n]
StrObj(s) == [t |-> "str", s |-> s]
Pair(a, d) == [t |-> "tuple", car |-> a, cdr |-> d]
Builtin(name) == [t |-> "builtin", name |-> name]

IsInt(v) == v.t = "int"
IsStr(v) == v.t = "str"
IsTuple(v) == v.t = "tuple"
IsNone(v) == v.t = "None"
IsFunction(v) == v.t \in {"builtin", "procedure"}

\* the outcome of a step that may raise: err = "none" and a value, or the
\* name of the exception raised
Ok(v) == [err |-> "none", val |-> v]
Raise(e) == [err |-> e, val |-> None]

RECURSIVE reverse_onto(_, _)
reverse_onto(ls, acc) ==
    IF IsNone(ls) THEN acc ELSE reverse_onto(ls.cdr, Pair(ls.car, acc))

reverse(ls) == reverse_onto(ls, None)

(***************************************************************************)
(* repr_lisp                                                               *)
(***************************************************************************)
RECURSIVE str_int(_)
str_int(n) ==
    LET digit(k) == <<"0", "1", "2", "3", "4", "5", "6", "7", "8", "9">>[k + 1]
    IN  IF n < 0 THEN <<"-">> \o str_int(0 - n)
        ELSE IF n < 10 THEN <<digit(n)>>
        ELSE str_int(n \div 10) \o <<digit(n % 10)>>

RECURSIVE join(_)
join(ls) ==
    IF Len(ls) = 0 THEN <<>>
    ELSE IF Len(ls) = 1 THEN ls[1]
    ELSE ls[1] \o <<" ">> \o join(Tail(ls))

RECURSIVE repr_lisp(_)
RECURSIVE repr_items(_)
\* the while loop of the tuple case: the printed cars, then the '.' and the
\* terminal value when the terminal value is a str
repr_items(datum) ==
    IF IsTuple(datum) THEN <<repr_lisp(datum.car)>> \o repr_items(datum.cdr)
    ELSE IF IsStr(datum) THEN <<<<".">>, repr_lisp(datum)>>
    ELSE <<>>

repr_lisp(datum) ==
    IF IsFunction(datum)
    THEN <<"<", "p", "r", "o", "c", "e", "d", "u", "r", "e", ">">>
    ELSE IF IsStr(datum) THEN datum.s
    ELSE IF IsInt(datum) THEN str_int(datum.n)
    ELSE IF IsNone(datum) THEN <<"(", ")">>
    ELSE <<"(">> \o join(repr_items(datum)) \o <<")">>

(***************************************************************************)
(* lexer                                                                   *)
(***************************************************************************)
Digits == {"0", "1", "2", "3", "4", "5", "6", "7", "8", "9"}
Spaces == {" "}
Punct == {"(", ")", "'", "."}

\* the class of the scanner's alternative that matches at character c
CharClass(c) ==
    IF c \in Punct THEN "punct"
    ELSE IF c \in Spaces THEN "space"
    ELSE IF c \in Digits THEN "digit"
    ELSE "other"

\* the last index of the maximal run of characters of class cls starting at i
RECURSIVE RunEnd(_, _, _)
RunEnd(text, i, cls) ==
    IF i < Len(text) /\ CharClass(text[i + 1]) = cls
    THEN RunEnd(text, i + 1, cls)
    ELSE i

RECURSIVE lexer_from(_, _)
lexer_from(text, i) ==
    IF i > Len(text) THEN <<>>
    ELSE LET cls == CharClass(text[i])
             j == IF cls = "punct" THEN i ELSE RunEnd(text, i, cls)
         IN  IF cls = "space" THEN lexer_from(text, j + 1)
             ELSE <<SubSeq(text, i, j)>> \o lexer_from(text, j + 1)

lexer(text) == lexer_from(text, 1)

(***************************************************************************)
(* Reader.  A reader is [token, next, tokens, pos]: tokens[pos] is the     *)
(* token the generator yields next; NoToken stands for Python's None.      *)
(***************************************************************************)
NoToken == <<>>

Reader(text) ==
    [token |-> NoToken, next |-> NoToken, tokens |-> lexer(text), pos |-> 1]

_advance(r) ==
    [r EXCEPT !.token = r.next,
              !.next = IF r.pos <= Len(r.tokens) THEN r.tokens[r.pos] ELSE NoToken,
              !.pos = IF r.pos <= Len(r.tokens) THEN r.pos + 1 ELSE r.pos]

\* _accept returns [ok, r]
_accept(r, token) ==
    IF r.next = token THEN [ok |-> TRUE, r |-> _advance(r)]
    ELSE [ok |-> FALSE, r |-> r]

isnumeric(token) == \A i \in 1..Len(token) : token[i] \in Digits

RECURSIVE int_of(_)
int_of(token) ==
    IF Len(token) = 0 THEN 0
    ELSE LET d == CHOOSE k \in 0..9 : str_int(k) = <<token[Len(token)]>>
         IN  10 * int_of(SubSeq(token, 1, Len(token) - 1)) + d

\* form returns [err, val, r]
RECURSIVE form(_)
RECURSIVE form_list(_, _)
form_list(r, acc) ==
    LET close == _accept(r, <<")">>)
        dot == _accept(r, <<".">>)
    IN  IF close.ok THEN [err |-> "none", val |-> reverse(acc), r |-> close.r]
        ELSE IF dot.ok
        THEN LET tl == form(dot.r)
                 accc == reverse_onto(acc, tl.val)
                 expect == _accept(tl.r, <<")">>)
             IN  IF tl.err # "none" THEN tl
                 ELSE IF ~expect.ok
                 THEN [err |-> "SyntaxError", val |-> None, r |-> expect.r]
                 ELSE [err |-> "none", val |-> accc, r |-> expect.r]
        ELSE LET elt == form(r)
             IN  IF elt.err # "none" THEN elt
                 ELSE form_list(elt.r, Pair(elt.val, acc))

form(r) ==
    LET open == _accept(r, <<"(">>)
        quote == _accept(r, <<"'">>)
    IN  IF open.ok THEN form_list(open.r, None)
        ELSE IF quote.ok
        THEN LET q == form(quote.r)
             IN  IF q.err # "none" THEN q
                 ELSE [q EXCEPT !.val = Pair(StrObj(<<"q", "u", "o", "t", "e">>),
                                             Pair(q.val, None))]
        ELSE LET r1 == _advance(r)
             IN  IF r1.token = NoToken
                 THEN [err |-> "AttributeError", val |-> None, r |-> r1]
                 ELSE IF isnumeric(r1.token)
                 THEN [err |-> "none", val |-> IntObj(int_of(r1.token)), r |-> r1]
                 ELSE [err |-> "none", val |-> StrObj(r1.token), r |-> r1]

read(text) == form(_advance(Reader(text)))

\* iter(self.form, None), consumed to its end: the values yielded, and the
\* exception that ended the iteration if one did
RECURSIVE iter_form(_, _)
iter_form(r, vals) ==
    LET f == form(r)
    IN  IF f.err # "none" THEN [err |-> f.err, vals |-> vals]
        ELSE IF IsNone(f.val) THEN [err |-> "none", vals |-> vals]
        ELSE iter_form(f.r, Append(vals, f.val))

read_many(text) == iter_form(_advance(Reader(text)), <<>>)

\* what the reader operations leave: the operation, how it ended, its value(s)
\* and the text printed from its value
NoRead == [op |-> "none", err |-> "none", val |-> None, vals |-> <<>>, out |-> <<>>]

(***************************************************************************)
(* Python's subscription v[i] (i = 0 or 1) and two-target unpacking        *)
(* a, b = v on a LispObject.                                               *)
(***************************************************************************)
PyItem(v, i) ==
    IF IsTuple(v) THEN Ok(IF i = 0 THEN v.car ELSE v.cdr)
    ELSE IF IsStr(v)
    THEN IF i < Len(v.s) THEN Ok(StrObj(<<v.s[i + 1]>>)) ELSE Raise("IndexError")
    ELSE Raise("TypeError")

\* returns [err, a, b]
PyUnpack(v) ==
    IF IsTuple(v) THEN [err |-> "none", a |-> v.car, b |-> v.cdr]
    ELSE IF IsStr(v)
    THEN IF Len(v.s) = 2
         THEN [err |-> "none", a |-> StrObj(<<v.s[1]>>), b |-> StrObj(<<v.s[2]>>)]
         ELSE [err |-> "ValueError", a |-> None, b |-> None]
    ELSE [err |-> "TypeError", a |-> None, b |-> None]

(***************************************************************************)
(* Scope.  heap holds the dicts the program creates, shared by reference:  *)
(* a frame is [vars, parent], vars the dict and parent the enclosing       *)
(* scope.  A scope is the index in heap of its first frame; scope 0 is     *)
(* base_scope, the module's own dict, which has no parent and which no     *)
(* evaluation has as its first frame, so that nothing ever writes to it.   *)
(***************************************************************************)
Sym(c) == StrObj(<<c>>)
K_t == Sym("t")
K_define == StrObj(<<"d", "e", "f", "i", "n", "e">>)
K_if == StrObj(<<"i", "f">>)
K_quote == StrObj(<<"q", "u", "o", "t", "e">>)
K_let == StrObj(<<"l", "e", "t">>)
K_lambda == StrObj(<<"l", "a", "m", "b", "d", "a">>)
K_car == StrObj(<<"c", "a", "r">>)
K_cdr == StrObj(<<"c", "d", "r">>)
K_cons == StrObj(<<"c", "o", "n", "s">>)
K_symbolp == StrObj(<<"s", "y", "m", "b", "o", "l", "?">>)
K_load == StrObj(<<"l", "o", "a", "d">>)
K_write == StrObj(<<"w", "r", "i", "t", "e">>)
K_read == StrObj(<<"r", "e", "a", "d">>)

EmptyDict == [k \in {} |-> None]

base_scope ==
    (K_car :> Builtin("car")) @@ (K_cdr :> Builtin("cdr"))
        @@ (K_cons :> Builtin("cons")) @@ (Sym("=") :> Builtin("="))
        @@ (K_symbolp :> Builtin("symbol?")) @@ (K_load :> Builtin("load"))
        @@ (K_write :> Builtin("write")) @@ (K_read :> Builtin("read"))
        @@ (Sym("+") :> Builtin("+")) @@ (Sym("-") :> Builtin("-"))
        @@ (Sym("*") :> Builtin("*"))

\* scope = {}, scope
NewScope(h, scope) == Append(h, [vars |-> EmptyDict, parent |-> scope])

\* scope[0][name] = value
SetItem(h, scope, name, value) ==
    [h EXCEPT ![scope].vars = (name :> value) @@ @]

\* the str case of eval_lisp: the first frame holding name wins, else None
RECURSIVE Lookup(_, _, _)
Lookup(name, scope, h) ==
    IF scope = 0
    THEN IF name \in DOMAIN base_scope THEN base_scope[name] ELSE None
    ELSE IF name \in DOMAIN h[scope].vars THEN h[scope].vars[name]
    ELSE Lookup(name, h[scope].parent, h)

(***************************************************************************)
(* The builtins of base_scope the model calls.  The host has no readable   *)
(* file and its standard input is at end of file.                          *)
(***************************************************************************)
RECURSIVE sum(_, _)
sum(ls, acc) ==
    IF IsNone(ls) THEN Ok(IntObj(acc))
    ELSE IF ~IsInt(ls.car) THEN Raise("TypeError")
    ELSE sum(ls.cdr, acc + ls.car.n)

RECURSIVE repeat(_, _)
repeat(s, n) == IF n <= 0 THEN <<>> ELSE s \o repeat(s, n - 1)

RECURSIVE product(_, _)
product(ls, ret) ==
    IF IsNone(ls) THEN Ok(ret)
    ELSE LET i == ls.car
         IN  IF IsInt(ret) /\ IsInt(i) THEN product(ls.cdr, IntObj(ret.n * i.n))
             ELSE IF IsInt(ret) /\ IsStr(i)
             THEN product(ls.cdr, StrObj(repeat(i.s, ret.n)))
             ELSE IF IsStr(ret) /\ IsInt(i)
             THEN product(ls.cdr, StrObj(repeat(ret.s, i.n)))
             ELSE IF IsTuple(ret) \/ IsTuple(i) THEN Raise("Unmodelled")
             ELSE Raise("TypeError")

\* returns [err, val, out]: out is what the call prints
builtin_call(name, args) ==
    LET a0 == PyItem(args, 0)
        a1 == PyItem(args, 1)
        a10 == PyItem(a1.val, 0)
        plain(r) == [err |-> r.err, val |-> r.val, out |-> <<>>]
    IN  IF name = "car"
        THEN plain(IF a0.err # "none" THEN a0 ELSE PyItem(a0.val, 0))
        ELSE IF name = "cdr"
        THEN plain(IF a0.err # "none" THEN a0 ELSE PyItem(a0.val, 1))
        ELSE IF name = "cons"
        THEN plain(IF a0.err # "none" THEN a0
                   ELSE IF a1.err # "none" THEN a1
                   ELSE IF a10.err # "none" THEN a10
                   ELSE Ok(Pair(a0.val, a10.val)))
        ELSE IF name = "="
        THEN plain(IF a0.err # "none" THEN a0
                   ELSE IF a1.err # "none" THEN a1
                   ELSE IF a10.err # "none" THEN a10
                   ELSE IF IsNone(a0.val) /\ IsNone(a10.val) THEN Ok(K_t)
                   ELSE IF IsStr(a0.val) /\ IsStr(a10.val) /\ a0.val = a10.val
                   THEN Ok(K_t)
                   ELSE Ok(None))
        ELSE IF name = "symbol?"
        THEN plain(IF a0.err # "none" THEN a0
                   ELSE IF IsStr(a0.val) THEN Ok(K_t) ELSE Ok(None))
        ELSE IF name = "load"
        THEN plain(IF a0.err # "none" THEN a0 ELSE Raise("OSError"))
        ELSE IF name = "write"
        THEN IF a0.err # "none" THEN plain(a0)
             ELSE [err |-> "none", val |-> None, out |-> <<repr_lisp(a0.val)>>]
        ELSE IF name = "read"
        THEN plain(Raise("EOFError"))
        ELSE IF name = "+"
        THEN plain(sum(args, 0))
        ELSE IF name = "-"
        THEN plain(IF a1.err # "none" THEN a1
                   ELSE IF a0.err # "none" THEN a0
                   ELSE IF ~IsInt(a0.val) THEN Raise("TypeError")
                   ELSE IF IsNone(a1.val) THEN Ok(IntObj(0 - a0.val.n))
                   ELSE LET rest == sum(a1.val, 0)
                        IN  IF rest.err # "none" THEN rest
                            ELSE Ok(IntObj(a0.val.n - rest.val.n)))
        ELSE plain(product(args, IntObj(1)))

(***************************************************************************)
(* match_args                                                              *)
(***************************************************************************)
\* the while loop and the final test.  name is the local variable name:
\* [bound, v], unbound until the loop's body has run once.  Returns [err, h].
RECURSIVE match_loop(_, _, _, _, _)
match_loop(lambda_list, args, scope, h, name) ==
    IF IsTuple(lambda_list)
    THEN LET u == PyUnpack(args)
         IN  IF u.err # "none" THEN [err |-> u.err, h |-> h]
             ELSE match_loop(lambda_list.cdr, u.b, scope,
                             SetItem(h, scope, lambda_list.car, u.a),
                             [bound |-> TRUE, v |-> lambda_list.car])
    ELSE IF IsStr(lambda_list)
    THEN IF ~name.bound THEN [err |-> "UnboundLocalError", h |-> h]
         ELSE [err |-> "none", h |-> SetItem(h, scope, name.v, args)]
    ELSE [err |-> "none", h |-> h]

\* returns [err, scope, h]: scope is the new scope, h the heap holding it
match_args(lambda_list, args, scope, h) ==
    LET h1 == NewScope(h, scope)
        m == match_loop(lambda_list, args, Len(h1), h1,
                        [bound |-> FALSE, v |-> None])
    IN  [err |-> m.err, scope |-> Len(h1), h |-> m.h]

(***************************************************************************)
(* eval_lisp.  An evaluation threads st through its steps:                 *)
(*   heap    the frames                                                    *)
(*   stdout  the lines printed                                             *)
(* and records of what happened, which no step reads:                      *)
(*   evals   the activations of eval_lisp in the order they began, each    *)
(*           with its native depth d and its syntax                        *)
(*   calls   the calls made by the application case, in order, each with   *)
(*           the depth d of the eval_lisp making it, the callee and the    *)
(*           argument list                                                 *)
(*   bind    the latest call of match_args and the frame it built          *)
(*   tails   the number of self tail calls made: invocations of a closure  *)
(*           from the last body expression (through if and let) of an      *)
(*           activation of that same closure                               *)
(*   chain   the largest number of activations of one closure stacked on   *)
(*           one another by self tail calls                                *)
(* d counts the nested activations of eval_lisp and procedure; g is the    *)
(* position of the evaluation for tails and chain: the closure whose body  *)
(* is being evaluated, whether this is its tail position, and the length   *)
(* of the chain of self tail calls that led to it.                         *)
(***************************************************************************)
R(err, val, st) == [err |-> err, val |-> val, st |-> st]

NoBind ==
    [called |-> FALSE, lambda_list |-> None, args |-> None, err |-> "none",
     vars |-> EmptyDict]

NoTail(g) == [g EXCEPT !.tp = FALSE]

TopLevel == [cur |-> None, tp |-> FALSE, chain |-> 0]

Procedure(lambda_list, body, scope, tail) ==
    [t |-> "procedure", lambda_list |-> lambda_list, body |-> body,
     scope |-> scope, tail |-> tail]

IsDefine(x) ==
    /\ IsTuple(x) /\ x.car = K_define
    /\ IsTuple(x.cdr) /\ IsStr(x.cdr.car)
    /\ IsTuple(x.cdr.cdr) /\ IsNone(x.cdr.cdr.cdr)

IsIf(x) ==
    /\ IsTuple(x) /\ x.car = K_if
    /\ IsTuple(x.cdr) /\ IsTuple(x.cdr.cdr)
    /\ IsTuple(x.cdr.cdr.cdr) /\ IsNone(x.cdr.cdr.cdr.cdr)

IsQuote(x) ==
    /\ IsTuple(x) /\ x.car = K_quote
    /\ IsTuple(x.cdr) /\ IsNone(x.cdr.cdr)

IsLet(x) == IsTuple(x) /\ x.car = K_let /\ IsTuple(x.cdr)

IsLambda(x) == IsTuple(x) /\ x.car = K_lambda /\ IsTuple(x.cdr)

\* one entry of the let's vars: [[str() as name, [value, None]], vars]
IsBinding(vars) ==
    /\ IsTuple(vars) /\ IsTuple(vars.car) /\ IsStr(vars.car.car)
    /\ IsTuple(vars.car.cdr) /\ IsNone(vars.car.cdr.cdr)

\* procedure_entry with the test on tail inverted: the signal is raised by
\* every closure made outside tail position
procedure_entry_inverted(p) == IF ~p.tail THEN "TailRecursion" ELSE "none"

\* "if tail and current_procedure is procedure: raise TailRecursion".
\* current_procedure is assigned in procedure, so it is a local variable of
\* procedure, and it is unassigned when the test reads it.
procedure_entry(p) == IF p.tail THEN "UnboundLocalError" ELSE "none"

RECURSIVE eval_lisp(_, _, _, _, _, _)
RECURSIVE eval_args(_, _, _, _, _, _)
RECURSIVE let_vars(_, _, _, _, _)
RECURSIVE eval_body(_, _, _, _, _, _, _)
RECURSIVE procedure(_, _, _, _, _)

\* fn(accc): the call of a callable, or of something that is not one
call(fn, accc, d, g, st) ==
    IF ~IsFunction(fn) THEN R("TypeError", None, st)
    ELSE IF d + 1 > RecursionLimit THEN R("RecursionError", None, st)
    ELSE IF fn.t = "builtin"
    THEN LET b == builtin_call(fn.name, accc)
         IN  R(b.err, b.val, [st EXCEPT !.stdout = @ \o b.out])
    ELSE procedure(fn, accc, d + 1, g, st)

\* application with fn evaluated before the arguments
application_fn_first(fn, args, scope, d, g, st) ==
    LET f == eval_lisp(fn, scope, FALSE, d + 1, NoTail(g), st)
        a == eval_args(args, None, scope, d, g, f.st)
        accc == reverse(a.val)
    IN  IF f.err # "none" THEN f
        ELSE IF a.err # "none" THEN a
        ELSE call(f.val, accc, d, g,
                  [a.st EXCEPT !.calls = Append(@, [d |-> d, fn |-> f.val, args |-> accc])])

\* case [fn, args]: the arguments from left to right, then fn, then the call
application(fn, args, scope, d, g, st) ==
    LET a == eval_args(args, None, scope, d, g, st)
        accc == reverse(a.val)
        f == eval_lisp(fn, scope, FALSE, d + 1, NoTail(g), a.st)
    IN  IF a.err # "none" THEN a
        ELSE IF f.err # "none" THEN f
        ELSE call(f.val, accc, d, g,
                  [f.st EXCEPT !.calls = Append(@, [d |-> d, fn |-> f.val, args |-> accc])])

\* "while args is not None": acc holds the values in reverse order
eval_args(args, acc, scope, d, g, st) ==
    IF IsNone(args) THEN R("none", acc, st)
    ELSE LET u == PyUnpack(args)
             v == eval_lisp(u.a, scope, FALSE, d + 1, NoTail(g), st)
         IN  IF u.err # "none" THEN R(u.err, None, st)
             ELSE IF v.err # "none" THEN v
             ELSE eval_args(u.b, Pair(v.val, acc), scope, d, g, v.st)

\* "while vars is not None" of the let case; val is FALSE when an entry
\* does not match and the let returns None
let_vars(vars, scope, d, g, st) ==
    IF IsNone(vars) THEN R("none", TRUE, st)
    ELSE IF ~IsBinding(vars) THEN R("none", FALSE, st)
    ELSE LET v == eval_lisp(vars.car.cdr.car, scope, FALSE, d + 1, NoTail(g), st)
         IN  IF v.err # "none" THEN v
             ELSE let_vars(vars.cdr, scope, d, g,
                           [v.st EXCEPT !.heap = SetItem(@, scope, vars.car.car, v.val)])

\* "while body[1] is not None: ..." and the evaluation of body[0], of the
\* let case and of procedure; catch is procedure's try around body[0]:
\* "except TailRecursion as ex: args = ex.__args__[0]", and a TailRecursion
\* has no attribute __args__
eval_body(body, scope, tail, catch, d, g, st) ==
    LET b1 == PyItem(body, 1)
        u == PyUnpack(body)
        e == eval_lisp(u.a, scope, FALSE, d + 1, NoTail(g), st)
        b0 == PyItem(body, 0)
        l == eval_lisp(b0.val, scope, tail, d + 1, g, st)
    IN  IF b1.err # "none" THEN R(b1.err, None, st)
        ELSE IF ~IsNone(b1.val)
        THEN IF u.err # "none" THEN R(u.err, None, st)
             ELSE IF e.err # "none" THEN e
             ELSE eval_body(u.b, scope, tail, catch, d, g, e.st)
        ELSE IF b0.err # "none" THEN R(b0.err, None, st)
        ELSE IF catch /\ l.err = "TailRecursion" THEN R("AttributeError", None, l.st)
        ELSE l

\* the closure a lambda form makes, called with args
procedure(p, args, d, g, st) ==
    LET selftail == g.tp /\ g.cur = p
        chain == IF selftail THEN g.chain + 1 ELSE 1
        st0 == [st EXCEPT !.tails = IF selftail THEN @ + 1 ELSE @,
                          !.chain = IF chain > @ THEN chain ELSE @]
        entry == procedure_entry(p)
        m == match_args(p.lambda_list, args, p.scope, st0.heap)
        st1 == [st0 EXCEPT !.heap = m.h,
                           !.bind = [called |-> TRUE, lambda_list |-> p.lambda_list,
                                     args |-> args, err |-> m.err,
                                     vars |-> m.h[m.scope].vars]]
    IN  IF IsNone(p.body) THEN R("none", None, st0)
        ELSE IF entry # "none" THEN R(entry, None, st0)
        ELSE IF d + 1 > RecursionLimit THEN R("RecursionError", None, st0)
        ELSE IF m.err # "none" THEN R(m.err, None, st1)
        ELSE eval_body(p.body, m.scope, p.tail, TRUE, d,
                       [cur |-> p, tp |-> TRUE, chain |-> chain], st1)

eval_lisp(syntax, scope, tail, d, g, st0) ==
    LET st == [st0 EXCEPT !.evals = Append(@, [d |-> d, syntax |-> syntax])]
    IN  IF d > RecursionLimit THEN R("RecursionError", None, st0)
        ELSE IF IsInt(syntax) THEN R("none", syntax, st)
        ELSE IF IsStr(syntax) THEN R("none", Lookup(syntax, scope, st.heap), st)
        ELSE IF IsDefine(syntax)
        THEN LET v == eval_lisp(syntax.cdr.cdr.car, scope, FALSE, d + 1, NoTail(g), st)
             IN  IF v.err # "none" THEN v
                 ELSE R("none", None,
                        [v.st EXCEPT !.heap = SetItem(@, scope, syntax.cdr.car, v.val)])
        ELSE IF IsIf(syntax)
        THEN LET test == eval_lisp(syntax.cdr.car, scope, FALSE, d + 1, NoTail(g), st)
             IN  IF test.err # "none" THEN test
                 ELSE IF ~IsNone(test.val)
                 THEN eval_lisp(syntax.cdr.cdr.car, scope, tail, d + 1, g, test.st)
                 ELSE eval_lisp(syntax.cdr.cdr.cdr.car, scope, tail, d + 1, g, test.st)
        ELSE IF IsQuote(syntax) THEN R("none", syntax.cdr.car, st)
        ELSE IF IsLet(syntax)
        THEN LET body == syntax.cdr.cdr
                 h1 == NewScope(st.heap, scope)
                 lv == let_vars(syntax.cdr.car, Len(h1), d, g, [st EXCEPT !.heap = h1])
             IN  IF IsNone(body) THEN R("none", None, st)
                 ELSE IF lv.err # "none" THEN lv
                 ELSE IF ~lv.val THEN R("none", None, lv.st)
                 ELSE eval_body(body, Len(h1), tail, FALSE, d, g, lv.st)
        ELSE IF IsLambda(syntax)
        THEN R("none", Procedure(syntax.cdr.car, syntax.cdr.cdr, scope, tail), st)
        ELSE IF IsTuple(syntax)
        THEN application(syntax.car, syntax.cdr, scope, d, g, st)
        ELSE R("none", None, st)

(***************************************************************************)
(* The frames a finished evaluation leaves behind.  LispRepl keeps one     *)
(* reference, self.scope (frame 1, whose parent is base_scope); the frames *)
(* no closure reachable from it captured are garbage.  The heap is cut     *)
(* after the last frame still referenced.                                  *)
(***************************************************************************)
RECURSIVE Refs(_)
Refs(v) ==
    IF v.t = "procedure" THEN {v.scope} \ {0}
    ELSE IF IsTuple(v) THEN Refs(v.car) \cup Refs(v.cdr)
    ELSE {}

FrameRefs(h, i) ==
    (IF h[i].parent = 0 THEN {} ELSE {h[i].parent})
        \cup UNION {Refs(h[i].vars[k]) : k \in DOMAIN h[i].vars}

RECURSIVE Reachable(_, _)
Reachable(h, live) ==
    LET more == live \cup UNION {FrameRefs(h, i) : i \in live}
    IN  IF more = live THEN live ELSE Reachable(h, more)

collect(h) ==
    LET live == Reachable(h, {1})
    IN  SubSeq(h, 1, CHOOSE m \in live : \A i \in live : i <= m)

(***************************************************************************)
(* The drivers: LispRepl.runcode and load.                                 *)
(***************************************************************************)
Start(h) ==
    [heap |-> h, stdout |-> <<>>, evals |-> <<>>, calls |-> <<>>,
     bind |-> NoBind, tails |-> 0, chain |-> 0]

NoRun ==
    [op |-> "none", form |-> None, err |-> "none", val |-> None, out |-> <<>>,
     evals |-> <<>>, calls |-> <<>>, bind |-> NoBind, tails |-> 0, chain |-> 0]

Outcome(op, syntax, r) ==
    [op |-> op, form |-> syntax, err |-> r.err, val |-> r.val,
     out |-> r.st.stdout, evals |-> r.st.evals, calls |-> r.st.calls,
     bind |-> r.st.bind, tails |-> r.st.tails, chain |-> r.st.chain]

\* print(repr_lisp(eval_lisp(code, self.scope, True))); an exception is
\* caught and reported, and the REPL goes on
runcode(syntax, h) ==
    LET r == eval_lisp(syntax, 1, TRUE, 1, TopLevel, Start(h))
    IN  IF r.err # "none" THEN r
        ELSE [r EXCEPT !.st.stdout = Append(@, repr_lisp(r.val))]

\* list(map(partial(eval_lisp, scope=scope), Reader().read_many(text))):
\* each form is read, then evaluated with tail = False, then the next is
\* read; the iteration ends when form returns None, or raises
RECURSIVE load_map(_, _, _)
load_map(r, scope, st) ==
    LET f == form(r)
        e == eval_lisp(f.val, scope, FALSE, 1, TopLevel, st)
    IN  IF f.err # "none" THEN R(f.err, None, st)
        ELSE IF IsNone(f.val) THEN R("none", None, st)
        ELSE IF e.err # "none" THEN e
        ELSE load_map(f.r, scope, e.st)

load(text, h) ==
    LET h1 == NewScope(h, 0)
    IN  load_map(_advance(Reader(text)), Len(h1), Start(h1))

(***************************************************************************)
(* The forms and the files the model runs.                                 *)
(***************************************************************************)
\* the largest list handed to the self-recursive closure
MaxIter == 3
\* the largest number of arguments in a call
MaxArgs == 3

RECURSIVE List(_)
List(elts) == IF Len(elts) = 0 THEN None ELSE Pair(elts[1], List(Tail(elts)))

Quoted(datum) == List(<<K_quote, datum>>)

Define(name, value) == List(<<K_define, Sym(name), value>>)

\* (define f (lambda (n) (if n (f (cdr n)) (quote d)))): the last body
\* expression calls f itself in tail position
DefLoop ==
    Define("f", List(<<K_lambda, List(<<Sym("n")>>),
                       List(<<K_if, Sym("n"),
                              List(<<Sym("f"), List(<<K_cdr, Sym("n")>>)>>),
                              Quoted(Sym("d"))>>)>>))

\* (f (quote (a ... a))), the list of k elements
CallLoop(k) == List(<<Sym("f"), Quoted(List([i \in 1..k |-> Sym("a")]))>>)

\* (lambda (a . r) r), (lambda r r), (lambda (x y) y), (lambda (x))
RestLambda == List(<<K_lambda, Pair(Sym("a"), Sym("r")), Sym("r")>>)
VariadicLambda == List(<<K_lambda, Sym("r"), Sym("r")>>)
ProperLambda == List(<<K_lambda, List(<<Sym("x"), Sym("y")>>), Sym("y")>>)
EmptyLambda == List(<<K_lambda, List(<<Sym("x")>>)>>)

\* (fn 1 ... k)
Call(fn, k) == Pair(fn, List([i \in 1..k |-> IntObj(i)]))

Calls ==
    {Call(fn, k) : fn \in {RestLambda, VariadicLambda, ProperLambda, EmptyLambda},
                   k \in 0..MaxArgs}

\* lists headed by a special form's name that do not match its pattern
BadForms ==
    {List(<<K_if, K_t, Sym("a")>>), List(<<K_define, Sym("x")>>), List(<<K_quote>>),
     List(<<K_lambda>>), List(<<K_let>>), List(<<K_let, Sym("x")>>),
     List(<<K_let, List(<<Sym("x")>>), IntObj(1)>>)}

\* (h (define h cons) h): an argument defines the operator's name
DefineInArgument == List(<<Sym("h"), Define("h", K_cons), Sym("h")>>)

OtherForms ==
    {Define("x", IntObj(1)), Sym("x"), None,
     List(<<Sym("+"), Sym("x"), IntObj(2)>>),
     List(<<K_let, List(<<List(<<Sym("x"), IntObj(1)>>),
                          List(<<Sym("x"), List(<<Sym("+"), Sym("x"), IntObj(1)>>)>>)>>),
            Sym("x")>>),
     List(<<K_cons, IntObj(1), List(<<K_cons, IntObj(2), Quoted(None)>>)>>),
     List(<<K_lambda, List(<<Sym("x")>>), Sym("x")>>),
     List(<<List(<<K_lambda, List(<<Sym("x")>>), Sym("x")>>), IntObj(1)>>),
     List(<<K_write, Quoted(Pair(Sym("a"), Sym("b")))>>)}

Forms ==
    {DefLoop, DefineInArgument}
        \cup {CallLoop(k) : k \in 0..MaxIter} \cup Calls \cup BadForms \cup OtherForms

\* a file's text: its words, each a sequence of characters, joined by spaces
Words(ws) == join(ws)

LoopWords ==
    <<<<"(">>, K_define.s, <<"f">>, <<"(">>, K_lambda.s, <<"(">>, <<"n">>, <<")">>,
      <<"(">>, K_if.s, <<"n">>, <<"(">>, <<"f">>, <<"(">>, K_cdr.s, <<"n">>, <<")">>,
      <<")">>, <<"1">>, <<")">>, <<")">>, <<")">>,
      <<"(">>, <<"f">>, <<"'">>, <<"(">>, <<"a">>, <<"a">>, <<")">>, <<")">>>>

Files ==
    {<<>>,
     Words(<<<<"(">>, K_define.s, <<"a">>, <<"1">>, <<")">>, <<"a">>>>),
     Words(<<<<"(">>, K_define.s, <<"a">>, <<"1">>, <<")">>, <<"(">>, <<")">>, <<"a">>>>),
     Words(<<<<"(">>, <<"a">>>>),
     Words(LoopWords),
     Words(LoopWords \o <<<<"(">>, <<")">>>>)}

(***************************************************************************)
(* The program: started on a file it loads the file and ends; started      *)
(* without one it is the REPL, which runs one form after another against   *)
(* its persistent scope.                                                   *)
(***************************************************************************)
Init ==
    /\ code = <<>>
    /\ rd = NoRead
    /\ heap = <<[vars |-> EmptyDict, parent |-> 0]>>
    /\ last = NoRun

RunCode ==
    /\ last.op # "load"
    /\ \E syntax \in Forms :
          LET r == runcode(syntax, heap)
          IN  /\ heap' = collect(r.st.heap)
              /\ last' = Outcome("runcode", syntax, r)
    /\ UNCHANGED <<code, rd>>

Load ==
    /\ last.op = "none"
    /\ \E text \in Files :
          LET r == load(text, heap)
          IN  /\ code' = text
              /\ heap' = collect(r.st.heap)
              /\ last' = Outcome("load", None, r)
    /\ UNCHANGED rd

Next == RunCode \/ Load

Spec == Init /\ [][Next]_world

(***************************************************************************)
(* The reader's inputs: every text that is a concatenation of at most n    *)
(* pieces.                                                                 *)
(***************************************************************************)
Pieces == {<<"(">>, <<")">>, <<" ">>, <<" ", ".", " ">>, <<"'">>,
           <<"a">>, <<"b">>, <<"1">>, <<"0">>}

RECURSIVE Concat(_)
Concat(ps) == IF Len(ps) = 0 THEN <<>> ELSE ps[1] \o Concat(Tail(ps))

Texts(n) == {Concat(ps) : ps \in UNION {[1..k -> Pieces] : k \in 0..n}}

\* Reader().read(code), as LispRepl.compile calls it
Read ==
    /\ rd.op = "none"
    /\ LET f == read(code)
       IN  rd' = [NoRead EXCEPT !.op = "read", !.err = f.err, !.val = f.val]
    /\ UNCHANGED <<code, heap, last>>

\* Reader().read_many(code), consumed to its end as load consumes it
ReadMany ==
    /\ rd.op = "none"
    /\ LET m == read_many(code)
       IN  rd' = [NoRead EXCEPT !.op = "read_many", !.err = m.err, !.vals = m.vals]
    /\ UNCHANGED <<code, heap, last>>

\* repr_lisp applied to the value read
Write ==
    /\ rd.op = "read"
    /\ rd.err = "none"
    /\ rd' = [rd EXCEPT !.op = "write", !.out = repr_lisp(rd.val)]
    /\ UNCHANGED <<code, heap, last>>

InitReader ==
    /\ code \in Texts(MaxPieces)
    /\ rd = NoRead
    /\ heap = <<>>
    /\ last = NoRun

NextReader == Read \/ ReadMany \/ Write

SpecReader == InitReader /\ [][NextReader]_world

(***************************************************************************)
(* Properties of the evaluator, checked under Spec.                        *)
(***************************************************************************)
RECURSIVE ProperList(_)
ProperList(ls) == IsNone(ls) \/ (IsTuple(ls) /\ ProperList(ls.cdr))

\* the cars of a chain of pairs, its length and its terminal cdr
RECURSIVE Elements(_)
Elements(ls) == IF IsTuple(ls) THEN <<ls.car>> \o Elements(ls.cdr) ELSE <<>>

Count(ls) == Len(Elements(ls))

RECURSIVE Terminal(_)
Terminal(ls) == IF IsTuple(ls) THEN Terminal(ls.cdr) ELSE ls

\* C1: for a closure whose last body expression calls the closure itself,
\* N successive self tail calls never leave N nested activations on the
\* stack: in an evaluation that completed, the activations stacked by self
\* tail calls are fewer than the self tail calls made.
C1_SelfTailCallsDoNotStack ==
    last.err = "none" /\ last.tails >= 2 => last.chain < last.tails

\* C2: a top-level evaluation, started by the REPL with tail = True or by
\* load with tail = False, never ends by raising TailRecursion.
C2_TailRecursionNeverEscapes == last.err # "TailRecursion"

\* a REPL evaluation in which a closure made self tail calls has ended
C2_SelfTailCallsReturned ==
    last.op = "runcode" /\ last.tails >= 1 /\ last.err = "none"

SpecialNames == {K_define, K_if, K_quote, K_let, K_lambda}

RECURSIVE IsBindings(_)
IsBindings(bindings) ==
    IsNone(bindings) \/ (IsBinding(bindings) /\ IsBindings(bindings.cdr))

Malformed(x) ==
    /\ IsTuple(x)
    /\ x.car \in SpecialNames
    /\ ~ \/ IsDefine(x)
         \/ IsIf(x)
         \/ IsQuote(x)
         \/ IsLet(x) /\ IsBindings(x.cdr.car)
         \/ IsLambda(x)

\* C3: evaluating a list headed by define, if, quote, let or lambda that
\* does not match the form's pattern returns Empty and raises nothing.
C3_MalformedSpecialFormIsEmpty ==
    last.op = "runcode" /\ Malformed(last.form)
        => last.err = "none" /\ IsNone(last.val)

\* the frame the binding protocol describes: each parameter bound to the
\* argument at its position while arguments remain, the tail symbol bound
\* to the remaining arguments
RECURSIVE ExpectedFrame(_, _)
ExpectedFrame(lambda_list, args) ==
    IF IsTuple(lambda_list)
    THEN IF IsTuple(args)
         THEN (lambda_list.car :> args.car) @@ ExpectedFrame(lambda_list.cdr, args.cdr)
         ELSE ExpectedFrame(lambda_list.cdr, args)
    ELSE IF IsStr(lambda_list) THEN (lambda_list :> args)
    ELSE EmptyDict

\* C4: when a closure whose parameter list ends in a bare symbol is
\* invoked with at least as many arguments as it has positional
\* parameters, the new frame binds each parameter to the argument at its
\* position and the tail symbol to the list of the remaining arguments,
\* and binds nothing else.
C4_RestParameterBound ==
    /\ last.bind.called
    /\ IsStr(Terminal(last.bind.lambda_list))
    /\ Count(last.bind.args) >= Count(last.bind.lambda_list)
    => /\ last.bind.err = "none"
       /\ last.bind.vars = ExpectedFrame(last.bind.lambda_list, last.bind.args)

\* C5: invoking a closure whose parameter list is a proper list raises
\* nothing whatever the number of arguments: surplus arguments are
\* ignored and unfilled parameters are absent from the new frame.
C5_NoArityError ==
    last.bind.called /\ ProperList(last.bind.lambda_list)
    => /\ last.bind.err = "none"
       /\ last.bind.vars = ExpectedFrame(last.bind.lambda_list, last.bind.args)

IsApplication(x) ==
    /\ IsTuple(x)
    /\ ~(IsDefine(x) \/ IsIf(x) \/ IsQuote(x) \/ IsLet(x) \/ IsLambda(x))

\* the syntax of the evaluations the top-level form started itself, in the
\* order they began, and the calls it made itself
TopEvals ==
    LET kids == SelectSeq(last.evals, LAMBDA e : e.d = 2)
    IN  [i \in 1..Len(kids) |-> kids[i].syntax]

TopCalls == SelectSeq(last.calls, LAMBDA c : c.d = 1)

IsPrefix(s, t) == Len(s) <= Len(t) /\ s = SubSeq(t, 1, Len(s))

\* C10 as stated: an application evaluates the operator first, then the
\* arguments from left to right.
C10_OperatorThenArguments ==
    last.op = "runcode" /\ IsApplication(last.form) /\ ProperList(last.form.cdr)
    => IsPrefix(TopEvals, <<last.form.car>> \o Elements(last.form.cdr))

\* C10 as amended: an application evaluates each argument exactly once
\* from left to right, then the operator, and calls it with the list of
\* the argument values in source order; a define made by an argument is
\* seen by the arguments to its right and by the evaluation of the
\* operator.
C10_ArgumentsThenOperator ==
    last.op = "runcode" /\ IsApplication(last.form) /\ ProperList(last.form.cdr)
    => LET expected == Elements(last.form.cdr) \o <<last.form.car>>
       IN  /\ IsPrefix(TopEvals, expected)
           /\ Len(TopCalls) <= 1
           /\ last.err = "none" \/ Len(TopCalls) = 1 => TopEvals = expected
           /\ /\ Len(TopCalls) = 1
              /\ \A i \in 1..Count(last.form.cdr) : IsInt(Elements(last.form.cdr)[i])
              => TopCalls[1].args = last.form.cdr
           /\ last.form = DefineInArgument
              => /\ Len(TopCalls) = 1
                 /\ TopCalls[1].fn = Builtin("cons")
                 /\ TopCalls[1].args = List(<<None, Builtin("cons")>>)

\* the application whose argument defines its operator's name has run
C10_DefineInArgumentRan ==
    last.op = "runcode" /\ last.form = DefineInArgument /\ last.err = "none"

(***************************************************************************)
(* Properties of the reader and the printer, checked under SpecReader.     *)
(***************************************************************************)
\* the tokens of a text as the lexical grammar gives them: an atom is a
\* maximal run of characters that are neither punctuation nor whitespace
GrammarClass(c) ==
    IF c \in Punct THEN "punct" ELSE IF c \in Spaces THEN "space" ELSE "atom"

RECURSIVE GrammarRunEnd(_, _, _)
GrammarRunEnd(text, i, cls) ==
    IF i < Len(text) /\ GrammarClass(text[i + 1]) = cls
    THEN GrammarRunEnd(text, i + 1, cls)
    ELSE i

RECURSIVE GrammarTokensFrom(_, _)
GrammarTokensFrom(text, i) ==
    IF i > Len(text) THEN <<>>
    ELSE LET cls == GrammarClass(text[i])
             j == IF cls = "punct" THEN i ELSE GrammarRunEnd(text, i, cls)
         IN  IF cls = "space" THEN GrammarTokensFrom(text, j + 1)
             ELSE <<SubSeq(text, i, j)>> \o GrammarTokensFrom(text, j + 1)

GrammarTokens(text) == GrammarTokensFrom(text, 1)

\* the number of lists open after the first i tokens
RECURSIVE OpenDepth(_, _)
OpenDepth(toks, i) ==
    IF i = 0 THEN 0
    ELSE OpenDepth(toks, i - 1)
            + (IF toks[i] = <<"(">> THEN 1 ELSE IF toks[i] = <<")">> THEN -1 ELSE 0)

\* the tokens open a list that is still open at the end of input
Unclosed(toks) ==
    /\ Len(toks) >= 1
    /\ toks[1] = <<"(">>
    /\ \A i \in 1..Len(toks) : OpenDepth(toks, i) >= 1

\* the tokens are one list, closed by the last token
OneList(toks) ==
    /\ Len(toks) >= 2
    /\ toks[1] = <<"(">>
    /\ \A i \in 1..(Len(toks) - 1) : OpenDepth(toks, i) >= 1
    /\ OpenDepth(toks, Len(toks)) = 0

IsAtom(tok) == Len(tok) >= 1 /\ tok[1] \notin Punct

\* the forms of a text, read one at a time until the tokens are used up
RECURSIVE AllForms(_)
AllForms(r) ==
    IF r.next = NoToken THEN [ok |-> TRUE, vals |-> <<>>]
    ELSE LET f == form(r)
             rest == AllForms(f.r)
         IN  IF f.err # "none" THEN [ok |-> FALSE, vals |-> <<>>]
             ELSE [ok |-> rest.ok, vals |-> <<f.val>> \o rest.vals]

\* a stray ')' or '.' was read as an atom
RECURSIVE HasPunctAtom(_)
HasPunctAtom(v) ==
    IF IsTuple(v) THEN HasPunctAtom(v.car) \/ HasPunctAtom(v.cdr)
    ELSE IsStr(v) /\ ~IsAtom(v.s)

\* C6: read_many on a text of n top-level forms yields exactly those n
\* values in source order and then ends normally.
C6_ReadManyYieldsEveryForm ==
    rd.op = "read_many"
    => LET all == AllForms(_advance(Reader(code)))
       IN  all.ok /\ (\A i \in 1..Len(all.vals) : ~HasPunctAtom(all.vals[i]))
           => rd.err = "none" /\ rd.vals = all.vals

\* C7: when a required closing token is absent (a list still open at the
\* end of input, or a dotted tail not followed by ')'), read signals
\* SyntaxError and nothing else.
C7_MissingCloseIsSyntaxError ==
    rd.op = "read"
    => LET toks == lexer(code)
       IN  /\ Unclosed(toks) => rd.err = "SyntaxError"
           /\ /\ Len(toks) >= 5
              /\ toks[1] = <<"(">> /\ IsAtom(toks[2]) /\ toks[3] = <<".">>
              /\ IsAtom(toks[4]) /\ toks[5] # <<")">>
              => rd.err = "SyntaxError"

\* C8: for a text that is one proper list of symbols and integers, with no
\* quote and no dot, printing what read returns gives the text back up to
\* whitespace: the same tokens in the same order.
C8_RoundTrip ==
    LET toks == GrammarTokens(code)
        plain == /\ OneList(toks)
                 /\ \A i \in 1..Len(toks) : toks[i] \notin {<<"'">>, <<".">>}
    IN  /\ rd.op = "read" /\ plain => rd.err = "none"
        /\ rd.op = "write" /\ plain => GrammarTokens(rd.out) = toks

\* the printed form of a value as the printer is described: the elements,
\* then '.' and the terminal value unless the terminal value is Empty
RECURSIVE GrammarRepr(_)
GrammarRepr(v) ==
    IF ~IsTuple(v) THEN repr_lisp(v)
    ELSE LET elts == Elements(v)
             items == [i \in 1..Len(elts) |-> GrammarRepr(elts[i])]
             dotted == IF IsNone(Terminal(v)) THEN <<>>
                       ELSE <<<<".">>, GrammarRepr(Terminal(v))>>
         IN  <<"(">> \o join(items \o dotted) \o <<")">>

\* C9: a chain of pairs whose terminal cdr is not Empty prints as its
\* elements, a '.', and the terminal value, within the parentheses.
C9_DottedTailPrinted ==
    rd.op = "write" /\ IsTuple(rd.val) /\ ~IsNone(Terminal(rd.val))
    => rd.out = GrammarRepr(rd.val)

====
